---- MODULE Spec2Model ----
(***************************************************************************)
(* clientx.Request: the retrying HTTP request engine of chihqiang/gox.     *)
(* One record per caller (goroutine) holds the locals of its call to       *)
(* Request; the process-wide state is the shared client and the buffer     *)
(* pool.  Durations inside Request are in milliseconds; defaultBackoff is  *)
(* also given in int64 nanoseconds, as the build computes it.              *)
(***************************************************************************)
EXTENDS Integers, Sequences, FiniteSets, TLC

\* ---------------------------------------------------------------- bounds
NumCalls == 2          \* goroutines that may call Request
NumClients == 2        \* distinct *http.Client values SetClient may install
MaxBufs == 2           \* *bytes.Buffer values the pool's New may allocate
MaxRetries == 2        \* largest value given to WithRetries
MaxMiddlewares == 2    \* longest list of WithMiddleware options
MaxAttemptIndex == 100 \* largest attempt index handed to defaultBackoff directly
MaxOpts == 2           \* longest list of options a caller passes to a helper
NumThreads == 2        \* goroutines that use the shared client at once

\* ------------------------------------------------------ program constants
DefaultRetries == 3
BackoffBaseMs == 500
BackoffMaxMs == 30000
BodyThreshold == 1024
ErrBodyLimit == 512

Calls == 1..NumCalls
Threads == 1..NumThreads
Clients == 1..NumClients
Bufs == 1..MaxBufs

\* -------------------------------------------------------------- nil values
NoResp == [type |-> "nil"]
NoErr == [type |-> "nil"]
NilBody == -1
NoBuf == 0

\* ------------------------------------------------------------ input sets
Methods == {"GET", "HEAD", "POST", "PUT", "DELETE", "get"}
MiddlewareIds == {"A", "B"}
BackoffFuncs == {"defaultBackoff", "zeroBackoff", "negativeBackoff"}
Bodies == {NilBody, BodyThreshold - 1, BodyThreshold}
Urls == {"http://h/ok", "://bad"}
Statuses == {199, 200, 299, 300, 302, 400, 404, 499, 500, 503}
RespBodyLens == {0, 300, 2000}
CtxErrs == {"context canceled", "context deadline exceeded"}

Min(a, b) == IF a < b THEN a ELSE b

\* strings.ToUpper on the method names of Methods
ToUpper(m) == IF m = "get" THEN "GET" ELSE m

\* 1 << attempt
RECURSIVE Shl1(_)
Shl1(n) == IF n = 0 THEN 1 ELSE 2 * Shl1(n - 1)

\* a backoff that starts one doubling too far
defaultBackoff_OffByOne(attempt) ==
    LET d == Shl1(attempt + 1) * BackoffBaseMs
    IN  IF d > BackoffMaxMs THEN BackoffMaxMs ELSE d

\* defaultBackoff in milliseconds, for the attempt indices a call to Request
\* reaches (the product stays inside int64 up to attempt 34)
defaultBackoff(attempt) ==
    LET d == Shl1(attempt) * BackoffBaseMs
    IN  IF d > BackoffMaxMs THEN BackoffMaxMs ELSE d

\* options.Backoff(attempt) for the BackoffFunc values of BackoffFuncs
CallBackoff(f, attempt) ==
    CASE f = "defaultBackoff" -> defaultBackoff(attempt)
      [] f = "zeroBackoff" -> 0
      [] f = "negativeBackoff" -> -1

\* ------------------------------------------------------------ int64 values
\* An int64 (a time.Duration) is written as its eight bytes in two's
\* complement, least significant first; arithmetic wraps modulo 2^64.
FromNat(n) == [i \in 1..8 |-> IF i <= 4 THEN (n \div (256 ^ (i - 1))) % 256 ELSE 0]

\* x[1]*y[k] + x[2]*y[k-1] + ... + x[k]*y[1], from term i on
RECURSIVE ColumnSum(_, _, _, _)
ColumnSum(x, y, k, i) ==
    IF i > k THEN 0 ELSE x[i] * y[k + 1 - i] + ColumnSum(x, y, k, i + 1)

\* bytes k..8 of the product, given the carry into byte k
RECURSIVE MulFrom(_, _, _, _)
MulFrom(x, y, k, carry) ==
    IF k > 8 THEN <<>>
    ELSE LET t == ColumnSum(x, y, k, 1) + carry
         IN  <<t % 256>> \o MulFrom(x, y, k + 1, t \div 256)

\* x * y on int64
Mul64(x, y) == MulFrom(x, y, 1, 0)

\* time.Duration(1 << attempt): a shift by 64 or more gives 0
Shl64(attempt) ==
    [i \in 1..8 |-> IF attempt < 64 /\ attempt \div 8 = i - 1 THEN 2 ^ (attempt % 8) ELSE 0]

IsNeg64(x) == x[8] >= 128

RECURSIVE ULess(_, _, _)
ULess(x, y, i) ==
    IF i = 0 THEN FALSE
    ELSE IF x[i] # y[i] THEN x[i] < y[i] ELSE ULess(x, y, i - 1)

\* x < y on int64
Less64(x, y) == IF IsNeg64(x) # IsNeg64(y) THEN IsNeg64(x) ELSE ULess(x, y, 8)

\* time.Millisecond, in nanoseconds
Millisecond == FromNat(1000000)

\* 30 * time.Second
MaxBackoff64 == Mul64(FromNat(BackoffMaxMs), Millisecond)

\* defaultBackoff on time.Duration:
\* d := time.Duration(1<<attempt) * 500 * time.Millisecond, then the clamp
defaultBackoff64(attempt) ==
    LET d == Mul64(Mul64(Shl64(attempt), FromNat(BackoffBaseMs)), Millisecond)
    IN  IF Less64(MaxBackoff64, d) THEN MaxBackoff64 ELSE d

\* http.NewRequestWithContext fails on a URL that does not parse
NewRequestFails(urlStr) == urlStr = "://bad"

NewRequestErr == [type |-> "url.Error", op |-> "parse"]

\* the error http.Client.Do returns when the request's context is done
DoCtxErr(ctxErr) == [type |-> "url.Error", op |-> "Do", cause |-> ctxErr]

\* any other transport failure (connection refused, client timeout, ...)
TransportErr == [type |-> "url.Error", op |-> "Do", cause |-> "dial"]

Response(status, n) ==
    [type |-> "resp", StatusCode |-> status, bodyLen |-> n, read |-> 0, closed |-> FALSE]

\* ----------------------------------------------------------------- state
VARIABLES
    call,           \* call[c]: the locals of caller c's call to Request
    defaultClient,  \* the package variable defaultClient
    bufferPool,     \* the buffers now in the package variable bufferPool
    bufData,        \* bufData[b]: contents of buffer b, a sequence of chunks
    allocated,      \* buffers bufferPool.New has returned so far
    bodyReaders,    \* buffers a transport still reads as the body of a request
                    \* whose Do has already returned
    backoffCall,    \* the last direct call of defaultBackoff: argument, result
    mu,             \* the package variable mu: its writer and its readers
    settings,       \* settings[k][f]: field f of client k (and its Transport)
    thr             \* thr[t]: what goroutine t does with the shared client

vars == <<call, defaultClient, bufferPool, bufData, allocated, bodyReaders,
          backoffCall, mu, settings, thr>>

\* the variables Request itself never touches
others == <<backoffCall, mu, settings, thr>>

\* ------------------------------------------------------------ buffer pool
\* a size test that sends a body of exactly 1024 bytes past the pool
UsesPool_Above(body) == body # NilBody /\ body > BodyThreshold

\* body != nil and not len(body) < 1024
UsesPool(body) == body # NilBody /\ body >= BodyThreshold

\* the io.Reader handed to http.NewRequestWithContext
BodyReader(body) ==
    IF body = NilBody THEN "nil"
    ELSE IF body < BodyThreshold THEN "bytes.Reader" ELSE "bytes.Buffer"

\* a Put that loses the buffer
PoolPut_Lost(pool, b) == pool

\* if buf != nil { bufferPool.Put(buf) }
PoolPut(pool, b) == IF b = NoBuf THEN pool ELSE pool \cup {b}

\* the count of Put calls after one more "if buf != nil { Put }"
CountPut(n, b) == IF b = NoBuf THEN n ELSE n + 1

\* bufferPool.Get(): a pooled buffer, or a new one from New (new buffers are
\* numbered in the order New makes them)
PoolGet ==
    bufferPool \cup {b \in Bufs \ allocated : \A b2 \in Bufs \ allocated : b <= b2}

Chunk(c, n) == [from |-> c, n |-> n]

\* a nil map[string]string
NoHeaders == [k \in {} |-> ""]

\* type Option, after the OptionFunc values have been applied
Option(retries, backoff, force, mws) ==
    [Retries |-> retries, Backoff |-> backoff, Headers |-> NoHeaders,
     ForceRetry |-> force, Middlewares |-> mws]

SeqsUpTo(S, n) == UNION {[1..k -> S] : k \in 0..n}

\* the values given to WithRetries, and the default when it is not given
RetriesValues == (0..MaxRetries) \cup {DefaultRetries}

\* calls that register no middleware (the default chain is empty)
Options ==
    {Option(r, b, f, <<>>) : r \in RetriesValues, b \in BackoffFuncs, f \in BOOLEAN}

\* the options tried on calls whose body goes through the buffer pool
PoolOptions ==
    {Option(r, "defaultBackoff", f, <<>>) : r \in 0..1, f \in BOOLEAN}

\* the goroutines that call Request concurrently in SpecPool
PoolCallers == {1, 2}

\* calls that register middlewares with WithMiddleware, in every order
ChainOptions ==
    {Option(r, "defaultBackoff", FALSE, m) :
        r \in 0..1, m \in SeqsUpTo(MiddlewareIds, MaxMiddlewares)}

\* ------------------------------------------------------------ OptionFunc
WithRetries(n) == [f |-> "WithRetries", n |-> n]
WithBackoff(b) == [f |-> "WithBackoff", b |-> b]
WithHeaders(h) == [f |-> "WithHeaders", h |-> h]
WithForceRetry == [f |-> "WithForceRetry"]
WithMiddleware(mw) == [f |-> "WithMiddleware", mw |-> mw]

\* WithHeaders: for k, v := range h { o.Headers[k] = v }
MergeHeaders(old, h) ==
    [k \in DOMAIN old \cup DOMAIN h |-> IF k \in DOMAIN h THEN h[k] ELSE old[k]]

\* opt(options) for one OptionFunc
ApplyOption(opt, o) ==
    CASE opt.f = "WithRetries" -> [o EXCEPT !.Retries = opt.n]
      [] opt.f = "WithBackoff" -> [o EXCEPT !.Backoff = opt.b]
      [] opt.f = "WithHeaders" -> [o EXCEPT !.Headers = MergeHeaders(@, opt.h)]
      [] opt.f = "WithForceRetry" -> [o EXCEPT !.ForceRetry = TRUE]
      [] opt.f = "WithMiddleware" -> [o EXCEPT !.Middlewares = Append(@, opt.mw)]

\* options := &Option{Retries: 3, Backoff: defaultBackoff}
DefaultOption == Option(DefaultRetries, "defaultBackoff", FALSE, <<>>)

\* for _, opt := range opts { opt(options) }, from the i-th option on
RECURSIVE FoldOptions(_, _, _)
FoldOptions(opts, i, o) ==
    IF i > Len(opts) THEN o ELSE FoldOptions(opts, i + 1, ApplyOption(opts[i], o))

\* req.Header.Set canonicalises the key (textproto.CanonicalMIMEHeaderKey)
CanonicalKey(k) == IF k = "content-type" THEN "Content-Type" ELSE k

\* The headers of the request after
\* for k, v := range options.Headers { req.Header.Set(k, v) }.
\* The range over a map visits the keys in an order that changes from run to
\* run, and the last Set of a header wins: where several keys are spellings
\* of one header, any of their values may be the one sent.
SetHeaders(h) ==
    LET names == {CanonicalKey(k) : k \in DOMAIN h}
        values == {h[k] : k \in DOMAIN h}
    IN  {r \in [names -> values] :
            \A n \in names : \E k \in DOMAIN h : CanonicalKey(k) = n /\ r[n] = h[k]}

\* the header maps callers pass to WithHeaders
HeaderMaps ==
    {"Content-Type" :> "text/plain", "content-type" :> "text/html",
     "X-A" :> "1", "X-A" :> "2"}

\* the options callers pass to the helpers
CallerOpts ==
    {WithHeaders(h) : h \in HeaderMaps}
    \cup {WithRetries(0), WithRetries(1), WithBackoff("zeroBackoff"),
          WithBackoff("negativeBackoff"), WithForceRetry}

\* the FormData values passed to PostMForm: each file by whether its reader
\* can be read to the end, the fields by their number
Forms == {[Files |-> fs, Fields |-> n] : fs \in {<<>>, <<"ok">>, <<"bad">>}, n \in 0..1}
NoForm == [Files |-> <<>>, Fields |-> 0]

\* The locals of a call to Request at the top of its attempt loop.  Beside the
\* code's own variables the record keeps what an observer of the call sees:
\* sends (calls of doFunc), waits (calls of options.Backoff, with the index
\* passed and the duration returned), events (what the middlewares of the
\* current attempt logged), hist (how each finished send ended) and
\* cancelledAt (where the call was when its context was cancelled), gets and
\* puts (calls of bufferPool.Get and bufferPool.Put), reqHeaders (the header
\* of each request sent), clients (the client each attempt was sent through),
\* requested (Request has been entered).  via is the
\* exported function the caller called, with callerOpts, payload and form as
\* its arguments.  Three fields describe
\* the call's surroundings: ctx (a context that can be cancelled, or
\* context.Background()), statuses and respLens (the status codes and body
\* lengths the server it talks to answers with).
NewCall(method, urlStr, body, options) ==
    [pc |-> "loop", method |-> method, urlStr |-> urlStr, body |-> body,
     options |-> options, ctxErr |-> "", attempt |-> 0, lastErr |-> NoErr,
     buf |-> NoBuf, bodyReader |-> "nil", client |-> 0, doFunc |-> <<>>,
     resp |-> NoResp, err |-> NoErr, gets |-> 0, puts |-> 0,
     timer |-> "none", events |-> <<>>, sends |-> 0, waits |-> <<>>,
     hist |-> <<>>, cancelledAt |-> "",
     ctx |-> "WithCancel", statuses |-> Statuses, respLens |-> RespBodyLens,
     via |-> "Request", callerOpts |-> <<>>, payload |-> "", form |-> NoForm,
     requested |-> TRUE, reqHeaders |-> <<>>, clients |-> <<>>,
     retResp |-> NoResp, retErr |-> NoErr]

\* a goroutine that does not call Request
IdleCall == [NewCall("GET", "http://h/ok", NilBody, Option(0, "defaultBackoff", FALSE, <<>>))
                EXCEPT !.pc = "idle"]

\* a call to a server that answers 200 or 503 with an empty body
PoolCall(method, urlStr, body, options, ctx) ==
    [NewCall(method, urlStr, body, options)
        EXCEPT !.ctx = ctx, !.statuses = {200, 503}, !.respLens = {0}]

\* ----------------------------------------------------- the shared client
\* the fields the tuning options write: Timeout of the client, the others of
\* its Transport
Fields == {"Timeout", "MaxIdleConns", "MaxConnsPerHost", "IdleConnTimeout"}

\* the value handed to the tuning options (the fields start out as "default")
SettingArgs == {"x"}

\* What a goroutine does with the shared client: SetClient(newClient), a
\* tuning option writing value to field, or Do on the client GetClient
\* returned, which reads field.  client is the pointer GetClient returned;
\* snap is the value of the field when it returned, seen the value Do read;
\* ptrBefore and ptrAfter are defaultClient around the option's write.
NewThread(op, field, newClient, value) ==
    [op |-> op, pc |-> IF op = "SetClient" THEN "Lock" ELSE "RLock",
     field |-> field, newClient |-> newClient, value |-> value,
     client |-> 0, snap |-> "", seen |-> "", ptrBefore |-> 0, ptrAfter |-> 0]

IdleThread == [NewThread("none", "", 0, "") EXCEPT !.pc = "done"]

ThreadOps ==
    {NewThread("SetClient", "", k, "") : k \in Clients}
    \cup {NewThread("Tune", f, 0, v) : f \in Fields, v \in SettingArgs}
    \cup {NewThread("Do", f, 0, "") : f \in Fields}

\* no direct call of defaultBackoff yet
NoBackoffCall == [called |-> FALSE, attempt |-> 0, d |-> FromNat(0)]

\* a caller about to call Request or one of the Post helpers with
\* context.Background(), talking to a server that answers 200 or 503 with an
\* empty body
EntryCall(via, method, body, callerOpts, payload, form) ==
    [NewCall(method, "http://h/ok", body, DefaultOption)
        EXCEPT !.pc = "entry", !.via = via, !.callerOpts = callerOpts,
               !.payload = payload, !.form = form, !.requested = FALSE,
               !.ctx = "Background", !.statuses = {200, 503}, !.respLens = {0}]

\* the calls made in SpecPost
EntryCalls ==
    LET lists == SeqsUpTo(CallerOpts, MaxOpts)
    IN  {EntryCall("Request", "GET", NilBody, o, "", NoForm) : o \in lists}
        \cup {EntryCall("Post", "", BodyThreshold - 1, o, "", NoForm) : o \in lists}
        \cup {EntryCall("PostJSON", "", BodyThreshold - 1, o, "ok", NoForm) : o \in lists}
        \cup {[EntryCall("PostJSON", "", BodyThreshold, <<>>, "ok", NoForm)
                 EXCEPT !.ctx = "WithCancel"]}
        \cup {EntryCall("PostJSON", "", NilBody, o, "bad", NoForm) : o \in lists}
        \cup {EntryCall("PostForm", "", 0, o, "", NoForm) : o \in lists}
        \cup {EntryCall("PostMForm", "", BodyThreshold - 1, o, "", f) :
                 o \in lists, f \in Forms}

\* the package variables after initialisation
InitPackage ==
    /\ defaultClient = 1
    /\ bufferPool = {}
    /\ bufData = [b \in Bufs |-> <<>>]
    /\ allocated = {}
    /\ bodyReaders = {}
    /\ mu = [w |-> 0, r |-> {}]
    /\ settings = [k \in Clients |-> [f \in Fields |-> "default"]]

\* the package variables, and nothing going on beside the calls to Request
InitShared ==
    /\ InitPackage
    /\ backoffCall = NoBackoffCall
    /\ thr = [t \in Threads |-> IdleThread]

\* GetClient(): the shared client under the read lock
GetClient == defaultClient

\* One caller: every method, URL, Retries, backoff and ForceRetry with a body
\* that bypasses the pool, and GET and POST with a body that goes through it.
Init ==
    /\ \/ \E m \in Methods, u \in Urls, b \in Bodies, o \in Options :
             /\ ~UsesPool(b)
             /\ call = [c \in Calls |-> IF c = 1 THEN NewCall(m, u, b, o) ELSE IdleCall]
       \/ \E m \in {"GET", "POST"}, u \in Urls, b \in Bodies, o \in PoolOptions :
             /\ UsesPool(b)
             /\ call = [c \in Calls |-> IF c = 1 THEN NewCall(m, u, b, o) ELSE IdleCall]
    /\ InitShared

\* One caller, every method, URL, Retries, backoff and ForceRetry without a
\* body, and a POST with a body from the pool; the server answers 200, 404 or
\* 503 with an empty body.
InitLive ==
    /\ \E m \in Methods, u \in Urls, b \in {NilBody, BodyThreshold}, o \in Options :
          /\ UsesPool(b) => (m = "POST" /\ u = "http://h/ok" /\ o = DefaultOption)
          /\ call = [c \in Calls |->
                    IF c = 1
                    THEN [NewCall(m, u, b, o) EXCEPT !.statuses = {200, 404, 503},
                                                     !.respLens = {0}]
                    ELSE IdleCall]
    /\ InitShared

\* Two callers at once, each with a body that goes through the pool; the
\* first has a context that can be cancelled, the second context.Background().
InitPool ==
    /\ \E m1, m2 \in {"POST"}, u1, u2 \in {"http://h/ok"}, o1, o2 \in PoolOptions :
          call = [c \in Calls |->
                    IF c = 1 THEN PoolCall(m1, u1, BodyThreshold, o1, "WithCancel")
                    ELSE IF c \in PoolCallers THEN PoolCall(m2, u2, BodyThreshold + 1, o2, "Background")
                    ELSE IdleCall]
    /\ InitShared

\* One caller with middlewares, without a body or with one from the pool.
InitChain ==
    /\ \E m \in {"GET", "POST"}, b \in {NilBody, BodyThreshold}, o \in ChainOptions :
          call = [c \in Calls |-> IF c = 1 THEN NewCall(m, "http://h/ok", b, o)
                                  ELSE IdleCall]
    /\ InitShared

\* One caller to a server that answers 200 or 503 with an empty body, with a
\* context that can be cancelled: a GET without a body, with every Retries up
\* to the bound, or a POST with a body from the pool, without retries or with
\* ForceRetry and one retry.
InitClient ==
    /\ \E m \in {"GET", "POST"}, r \in 0..MaxRetries, f \in BOOLEAN :
          /\ (m = "GET") => ~f
          /\ (m = "POST") => (r = IF f THEN 1 ELSE 0)
          /\ call = [c \in Calls |->
                    IF c = 1
                    THEN PoolCall(m, "http://h/ok",
                                  IF m = "POST" THEN BodyThreshold ELSE NilBody,
                                  Option(r, "defaultBackoff", f, <<>>), "WithCancel")
                    ELSE IdleCall]
    /\ InitShared

\* direct calls of defaultBackoff with every attempt index up to the bound
InitBackoff ==
    /\ call = [c \in Calls |-> IdleCall]
    /\ InitPackage
    /\ backoffCall = NoBackoffCall
    /\ thr = [t \in Threads |-> IdleThread]

\* goroutines that replace, tune and use the shared client at once
InitStore ==
    /\ call = [c \in Calls |-> IdleCall]
    /\ InitPackage
    /\ backoffCall = NoBackoffCall
    /\ thr \in [Threads -> ThreadOps]

\* one caller of Request or of a Post helper
InitPost ==
    /\ \E e \in EntryCalls : call = [c \in Calls |-> IF c = 1 THEN e ELSE IdleCall]
    /\ InitShared

\* ------------------------------------------------------- middleware chain
\* The closure doFunc is written as the list of middlewares it runs through,
\* outermost first; <<>> is GetClient().Do itself.
Wrap(mw, next) == <<mw>> \o next

\* for i := len(options.Middlewares) - 1; i >= 0; i-- { doFunc = mw(next) }
RECURSIVE BuildChain(_, _, _)
BuildChain(mws, i, doFunc) ==
    IF i < 1 THEN doFunc ELSE BuildChain(mws, i - 1, Wrap(mws[i], doFunc))

Event(kind, mw) == [e |-> kind, mw |-> mw]

\* what a chain logs on the way down to Do: each middleware's "before" logic
\* from the outermost inwards, then the call of Do
BeforeEvents(doFunc) ==
    [i \in 1..Len(doFunc) |-> Event("before", doFunc[i])] \o <<Event("do", "")>>

\* what it logs on the way back: each middleware's "after" logic from the
\* innermost outwards
AfterEvents(doFunc) ==
    [i \in 1..Len(doFunc) |-> Event("after", doFunc[Len(doFunc) + 1 - i])]

\* ------------------------------------------------------------ classification
\* a success test that takes 300 for a success
IsSuccess_Inclusive(resp, err) ==
    err = NoErr /\ resp.StatusCode >= 200 /\ resp.StatusCode <= 300

\* err == nil && resp.StatusCode >= 200 && resp.StatusCode < 300
IsSuccess(resp, err) == err = NoErr /\ resp.StatusCode >= 200 /\ resp.StatusCode < 300

\* a client-error test that lets 400 through
IsClientError_Strict(resp) ==
    resp # NoResp /\ resp.StatusCode > 400 /\ resp.StatusCode < 500

\* resp != nil && resp.StatusCode >= 400 && resp.StatusCode < 500
IsClientError(resp) == resp # NoResp /\ resp.StatusCode >= 400 /\ resp.StatusCode < 500

\* a retry test that forgets ForceRetry
Retryable_IgnoresForce(options, method) ==
    ToUpper(method) = "GET" \/ ToUpper(method) = "HEAD"

\* a retry test that also takes PUT and DELETE
Retryable_WithPutDelete(options, method) ==
    options.ForceRetry \/ ToUpper(method) \in {"GET", "HEAD", "PUT", "DELETE"}

\* options.ForceRetry || ToUpper(method) == GET || ToUpper(method) == HEAD
Retryable(options, method) ==
    options.ForceRetry \/ ToUpper(method) = "GET" \/ ToUpper(method) = "HEAD"

\* a loop that runs one iteration too many
LoopCond_OneMore(attempt, options) == attempt <= options.Retries + 1

\* the loop condition attempt <= options.Retries
LoopCond(attempt, options) == attempt <= options.Retries

\* a budget test that lets the final attempt wait as well
RetryBudget_Inclusive(attempt, options) == attempt <= options.Retries

\* the guard attempt < options.Retries of the retry decision
RetryBudget(attempt, options) == attempt < options.Retries

\* io.ReadAll(io.LimitReader(resp.Body, 512)) followed by resp.Body.Close()
ReadErrBody(resp) ==
    IF resp = NoResp THEN resp
    ELSE [resp EXCEPT !.read = Min(ErrBodyLimit, resp.bodyLen), !.closed = TRUE]

\* a body read without the limit
BodyBytes_Unlimited(resp) == IF resp = NoResp THEN 0 ELSE resp.bodyLen

\* len(bodyBytes)
BodyBytes(resp) == IF resp = NoResp THEN 0 ELSE Min(ErrBodyLimit, resp.bodyLen)

HTTPError(status, method, urlStr, body, err) ==
    [type |-> "HTTPError", StatusCode |-> status, Method |-> method, URL |-> urlStr,
     Body |-> body, Err |-> err]

\* ctx.Err() of a context that is done
CtxErr(s) == [type |-> "ctx", msg |-> s.ctxErr]

Return(s, resp, err) == [s EXCEPT !.pc = "done", !.retResp = resp, !.retErr = err]

\* a timer that is never due when d <= 0
NewTimer_PositiveOnly(d) == IF d <= 0 THEN "none" ELSE "armed"

\* the timer of time.After(d): one of d <= 0 is due at once
NewTimer(d) == IF d <= 0 THEN "fired" ELSE "armed"

\* the select: case <-time.After(backoff) chosen
TimerCase(s) == [s EXCEPT !.pc = "loop", !.attempt = @ + 1, !.timer = "none"]

\* a ctx.Done() case that returns the recorded error instead of ctx.Err()
CtxCase_LastErr(s) == [Return(s, NoResp, s.lastErr) EXCEPT !.timer = "none"]

\* the select: case <-ctx.Done() chosen
CtxCase(s) == [Return(s, NoResp, CtxErr(s)) EXCEPT !.timer = "none"]

\* the retry decision after lastErr has been recorded; resp and err are locals
\* of the loop body and are not read again once the body goes on to wait
RetryDecision(s) ==
    IF RetryBudget(s.attempt, s.options)
    THEN IF Retryable(s.options, s.method)
         THEN LET backoff == CallBackoff(s.options.Backoff, s.attempt)
              IN  [s EXCEPT !.pc = "select", !.timer = NewTimer(backoff),
                            !.resp = NoResp, !.err = NoErr,
                            !.waits = Append(@, [attempt |-> s.attempt, d |-> backoff])]
         ELSE Return(s, NoResp, s.lastErr)
    ELSE [s EXCEPT !.pc = "loop", !.attempt = @ + 1]

\* everything Request does with (resp, err) once doFunc has returned
AfterSend(s0, resp, err) ==
    LET s == [s0 EXCEPT !.resp = resp, !.err = err, !.buf = NoBuf,
                        !.puts = CountPut(@, s0.buf),
                        !.events = @ \o AfterEvents(s0.doFunc)]
    IN  IF IsSuccess(resp, err)
        THEN Return(s, resp, NoErr)
        ELSE LET s1 == [s EXCEPT !.resp = ReadErrBody(resp)]
             IN  IF IsClientError(resp)
                 THEN Return(s1, NoResp,
                             HTTPError(resp.StatusCode, s.method, s.urlStr, BodyBytes(resp), NoErr))
                 ELSE RetryDecision(
                        [s1 EXCEPT !.lastErr =
                            HTTPError(0, s.method, s.urlStr, BodyBytes(resp), err)])

\* How a send ended, in the terms of the design: a 2xx without error, a 4xx
\* response, a cancellation error without response, or anything else.
Outcome(resp, err) ==
    CASE err = NoErr /\ resp # NoResp /\ resp.StatusCode \in 200..299 -> "2xx"
      [] resp # NoResp /\ resp.StatusCode \in 400..499 -> "4xx"
      [] resp = NoResp /\ err # NoErr /\ err.cause \in CtxErrs -> "cancel"
      [] OTHER -> "retry"

\* What doFunc(req) can return.  http.Client.Do returns a response together
\* with an error only when CheckRedirect fails, and then it is the redirect
\* response with its body already closed; a middleware may return any pair.
ErrStatuses == {200, 404, 503}
RedirectStatuses == {302}
SendOutcomes(s) ==
    {<<NoResp, TransportErr>>}
    \cup (IF s.ctxErr # "" THEN {<<NoResp, DoCtxErr(s.ctxErr)>>} ELSE {})
    \cup {<<Response(st, n), NoErr>> : st \in s.statuses, n \in s.respLens}
    \cup {<<Response(st, 0), TransportErr>> :
             st \in (IF s.doFunc = <<>> THEN RedirectStatuses ELSE ErrStatuses) \cap s.statuses}

\* ----------------------------------------------------------------- actions
\* One pass of the attempt loop up to the point where Do is in flight: the
\* body reader, the request, the headers, the chain and the call of doFunc.
\* a Request that looks the shared client up on its first attempt only
BindClient_OncePerCall(s) == IF s.sends = 0 THEN GetClient ELSE s.client

\* doFunc := GetClient().Do, evaluated inside the loop: the method value binds
\* the client that is current at this point of the attempt
BindClient(s) == GetClient

Prepare(c) ==
    LET s == call[c] IN
    /\ s.pc = "loop"
    /\ LoopCond(s.attempt, s.options)
    /\ \E b \in (IF UsesPool(s.body) THEN PoolGet ELSE {NoBuf}) :
         /\ allocated' = IF b = NoBuf THEN allocated ELSE allocated \cup {b}
         /\ bufData' = IF b = NoBuf THEN bufData
                       ELSE [bufData EXCEPT ![b] = <<Chunk(c, s.body)>>]
         /\ IF NewRequestFails(s.urlStr)
            THEN /\ bufferPool' = PoolPut(bufferPool \ {b}, b)
                 /\ call' = [call EXCEPT ![c] =
                       Return([s EXCEPT !.bodyReader = BodyReader(s.body),
                                        !.gets = CountPut(@, b), !.puts = CountPut(@, b)],
                              NoResp, NewRequestErr)]
            ELSE /\ bufferPool' = bufferPool \ {b}
                 /\ \E header \in SetHeaders(s.options.Headers) :
                     call' = [call EXCEPT ![c] =
                       LET doFunc == BuildChain(s.options.Middlewares,
                                                Len(s.options.Middlewares), <<>>)
                           client == BindClient(s)
                       IN  [s EXCEPT !.pc = "send", !.buf = b, !.client = client,
                                     !.clients = Append(@, client),
                                     !.reqHeaders = Append(@, header),
                                     !.bodyReader = BodyReader(s.body),
                                     !.gets = CountPut(@, b),
                                     !.doFunc = doFunc, !.events = BeforeEvents(doFunc),
                                     !.resp = NoResp, !.err = NoErr,
                                     !.sends = @ + 1]]
    /\ UNCHANGED <<defaultClient, bodyReaders>>
    /\ UNCHANGED others

\* The loop ends because attempt > options.Retries: return nil, lastErr
LoopExit(c) ==
    LET s == call[c] IN
    /\ s.pc = "loop"
    /\ ~LoopCond(s.attempt, s.options)
    /\ call' = [call EXCEPT ![c] = Return(s, NoResp, s.lastErr)]
    /\ UNCHANGED <<defaultClient, bufferPool, bufData, allocated, bodyReaders>>
    /\ UNCHANGED others

\* doFunc(req) returns; the buffer goes back to the pool and the outcome is
\* classified up to the next suspension point or return.  The transport closes
\* a request body asynchronously, possibly after Do has returned (an early
\* response, an error): it may still be reading the buffer at that point.
SendReturn(c) ==
    LET s == call[c] IN
    /\ s.pc = "send"
    /\ \E out \in SendOutcomes(s) :
         call' = [call EXCEPT ![c] =
                    AfterSend([s EXCEPT !.hist = Append(@, Outcome(out[1], out[2]))],
                              out[1], out[2])]
    /\ bufferPool' = PoolPut(bufferPool, s.buf)
    /\ \/ bodyReaders' = bodyReaders
       \/ /\ s.buf # NoBuf
          /\ bodyReaders' = bodyReaders \cup {s.buf}
    /\ UNCHANGED <<defaultClient, bufData, allocated>>
    /\ UNCHANGED others

\* The select statement looks at its two channels.
SelectPoll(c) ==
    LET s == call[c] IN
    /\ s.pc = "select"
    /\ \/ /\ s.timer = "fired"
          /\ call' = [call EXCEPT ![c] = TimerCase(s)]
       \/ /\ s.ctxErr # ""
          /\ call' = [call EXCEPT ![c] = CtxCase(s)]
       \/ /\ s.timer # "fired"
          /\ s.ctxErr = ""
          /\ call' = [call EXCEPT ![c].pc = "blocked"]
    /\ UNCHANGED <<defaultClient, bufferPool, bufData, allocated, bodyReaders>>
    /\ UNCHANGED others

\* The backoff timer comes due; a goroutine blocked in the select is woken
\* on the timer case.
TimerFire(c) ==
    LET s == call[c] IN
    /\ s.timer = "armed"
    /\ call' = [call EXCEPT ![c] =
                  IF s.pc = "blocked" THEN TimerCase(s) ELSE [s EXCEPT !.timer = "fired"]]
    /\ UNCHANGED <<defaultClient, bufferPool, bufData, allocated, bodyReaders>>
    /\ UNCHANGED others

\* The caller's context is cancelled or its deadline passes; a goroutine
\* blocked in the select is woken on the ctx.Done() case.
Cancel(c) ==
    LET s == call[c] IN
    /\ s.pc \notin {"idle", "done"}
    /\ s.ctx = "WithCancel"
    /\ s.ctxErr = ""
    /\ \E e \in CtxErrs :
         call' = [call EXCEPT ![c] =
                    LET s1 == [s EXCEPT !.ctxErr = e, !.cancelledAt = s.pc]
                    IN  IF s.pc = "blocked" THEN CtxCase(s1) ELSE s1]
    /\ UNCHANGED <<defaultClient, bufferPool, bufData, allocated, bodyReaders>>
    /\ UNCHANGED others

\* SetClient(client)
SetClient(k) ==
    /\ defaultClient' = k
    /\ UNCHANGED <<call, bufferPool, bufData, allocated, bodyReaders>>
    /\ UNCHANGED others

\* A transport whose Do has returned reads on from the buffer it was given as
\* the request body, taking whatever the buffer holds by now, and closes the
\* body.
LateRead(b) ==
    /\ b \in bodyReaders
    /\ bufData' = [bufData EXCEPT ![b] = <<>>]
    /\ bodyReaders' = bodyReaders \ {b}
    /\ UNCHANGED <<call, defaultClient, bufferPool, allocated>>
    /\ UNCHANGED others

\* -------------------------------------------------------------- helpers
\* the error a helper returns without calling Request
HelperErr(msg) == [type |-> "error", msg |-> msg]

\* Request entered: the options are folded over the defaults
EnterRequest(s, method, opts) ==
    [s EXCEPT !.pc = "loop", !.method = method, !.requested = TRUE,
              !.options = FoldOptions(opts, 1, DefaultOption)]

\* Post: Request(ctx, http.MethodPost, url, body, opts...)
Post(s, opts) == EnterRequest(s, "POST", opts)

\* append(opts, headerOpt) with headerOpt = WithHeaders({"Content-Type": ct})
WithContentType(opts, ct) == Append(opts, WithHeaders("Content-Type" :> ct))

PostJSON(s) ==
    IF s.payload = "bad"
    THEN Return(s, NoResp, HelperErr("JSON serialization failed"))
    ELSE Post(s, WithContentType(s.callerOpts, "application/json"))

PostForm(s) == Post(s, WithContentType(s.callerOpts, "application/x-www-form-urlencoded"))

\* a validation that asks for files and fields together
FormEmpty_Either(form) == Len(form.Files) = 0 \/ form.Fields = 0

\* (data.Files == nil || len(data.Files) == 0) &&
\* (data.Fields == nil || len(data.Fields) == 0)
FormEmpty(form) == Len(form.Files) = 0 /\ form.Fields = 0

\* io.Copy(part, f.File) fails for some file
CopyFails(form) == \E i \in 1..Len(form.Files) : form.Files[i] = "bad"

PostMForm(s) ==
    IF FormEmpty(s.form)
    THEN Return(s, NoResp, HelperErr("Files and Fields cannot be empty at the same time"))
    ELSE IF CopyFails(s.form)
    THEN Return(s, NoResp, HelperErr("copy file failed"))
    ELSE Post(s, WithContentType(s.callerOpts, "multipart/form-data"))

\* The caller's call, up to the entry into Request or the helper's own return.
Enter(c) ==
    LET s == call[c] IN
    /\ s.pc = "entry"
    /\ call' = [call EXCEPT ![c] =
                  CASE s.via = "Request" -> EnterRequest(s, s.method, s.callerOpts)
                    [] s.via = "Post" -> Post(s, s.callerOpts)
                    [] s.via = "PostJSON" -> PostJSON(s)
                    [] s.via = "PostForm" -> PostForm(s)
                    [] s.via = "PostMForm" -> PostMForm(s)]
    /\ UNCHANGED <<defaultClient, bufferPool, bufData, allocated, bodyReaders>>
    /\ UNCHANGED others

\* defaultBackoff(attempt), called directly
DefaultBackoffCall(attempt) ==
    /\ backoffCall' = [called |-> TRUE, attempt |-> attempt, d |-> defaultBackoff64(attempt)]
    /\ UNCHANGED <<call, defaultClient, bufferPool, bufData, allocated, bodyReaders,
                   mu, settings, thr>>

\* a GetClient that keeps its read lock while the caller uses the client
ReleaseRead_Held(m, t) == m

\* mu.RUnlock() by goroutine t
ReleaseRead(m, t) == [m EXCEPT !.r = @ \ {t}]

\* what the steps on the shared client leave alone
StoreUnchanged == UNCHANGED <<call, bufferPool, bufData, allocated, bodyReaders, backoffCall>>

\* SetClient: mu.Lock()
Lock(t) ==
    /\ thr[t].pc = "Lock"
    /\ mu.w = 0 /\ mu.r = {}
    /\ mu' = [mu EXCEPT !.w = t]
    /\ thr' = [thr EXCEPT ![t].pc = "assign"]
    /\ UNCHANGED <<defaultClient, settings>>
    /\ StoreUnchanged

\* SetClient: defaultClient = client
Assign(t) ==
    /\ thr[t].pc = "assign"
    /\ defaultClient' = thr[t].newClient
    /\ thr' = [thr EXCEPT ![t].pc = "Unlock"]
    /\ UNCHANGED <<mu, settings>>
    /\ StoreUnchanged

\* SetClient: the deferred mu.Unlock()
Unlock(t) ==
    /\ thr[t].pc = "Unlock"
    /\ mu' = [mu EXCEPT !.w = 0]
    /\ thr' = [thr EXCEPT ![t].pc = "done"]
    /\ UNCHANGED <<defaultClient, settings>>
    /\ StoreUnchanged

\* GetClient: mu.RLock()
RLock(t) ==
    /\ thr[t].pc = "RLock"
    /\ mu.w = 0
    /\ mu' = [mu EXCEPT !.r = @ \cup {t}]
    /\ thr' = [thr EXCEPT ![t].pc = "return"]
    /\ UNCHANGED <<defaultClient, settings>>
    /\ StoreUnchanged

\* GetClient: return defaultClient
ReturnClient(t) ==
    /\ thr[t].pc = "return"
    /\ thr' = [thr EXCEPT ![t].pc = "RUnlock", ![t].client = defaultClient,
                          ![t].snap = IF thr[t].op = "Do"
                                      THEN settings[defaultClient][thr[t].field] ELSE ""]
    /\ UNCHANGED <<defaultClient, mu, settings>>
    /\ StoreUnchanged

\* GetClient: the deferred mu.RUnlock(); the caller goes on with the pointer
RUnlock(t) ==
    /\ thr[t].pc = "RUnlock"
    /\ mu' = ReleaseRead(mu, t)
    /\ thr' = [thr EXCEPT ![t].pc = IF thr[t].op = "Tune" THEN "set" ELSE "Do"]
    /\ UNCHANGED <<defaultClient, settings>>
    /\ StoreUnchanged

\* a tuning option: client.Timeout = timeout, t.MaxIdleConns = n, ...
TuneSet(t) ==
    /\ thr[t].pc = "set"
    /\ settings' = [settings EXCEPT ![thr[t].client][thr[t].field] = thr[t].value]
    /\ UNCHANGED <<defaultClient, mu>>
    /\ thr' = [thr EXCEPT ![t].pc = "done", ![t].ptrBefore = defaultClient,
                          ![t].ptrAfter = defaultClient']
    /\ StoreUnchanged

\* Do on the pointer GetClient returned reads the field during the send
DoUse(t) ==
    /\ thr[t].pc = "Do"
    /\ thr' = [thr EXCEPT ![t].pc = "done",
                          ![t].seen = settings[thr[t].client][thr[t].field]]
    /\ UNCHANGED <<defaultClient, mu, settings>>
    /\ StoreUnchanged

Next ==
    \/ \E c \in Calls : Prepare(c)
    \/ \E c \in Calls : LoopExit(c)
    \/ \E c \in Calls : SendReturn(c)
    \/ \E c \in Calls : SelectPoll(c)
    \/ \E c \in Calls : TimerFire(c)
    \/ \E c \in Calls : Cancel(c)
    \/ \E b \in Bufs : LateRead(b)

\* one call to Request, no middleware, the shared client left as it is
Spec == Init /\ [][Next]_vars

\* One call to Request under a scheduler that runs the goroutine whenever it
\* can take a step, with sends that return and timers that come due; the
\* context need never be cancelled.
FairSpec ==
    /\ InitLive
    /\ [][Next]_vars
    /\ \A c \in Calls :
          /\ WF_vars(Prepare(c)) /\ WF_vars(LoopExit(c)) /\ WF_vars(SendReturn(c))
          /\ WF_vars(SelectPoll(c)) /\ WF_vars(TimerFire(c))

\* two concurrent calls to Request that share the buffer pool
SpecPool == InitPool /\ [][Next]_vars

\* one call to Request through a chain of middlewares
SpecChain == InitChain /\ [][Next]_vars

\* one call to Request or a Post helper with the caller's list of options
NextPost == Next \/ \E c \in Calls : Enter(c)

SpecPost == InitPost /\ [][NextPost]_vars

\* calls to Request while other goroutines replace the shared client
NextClient == Next \/ \E k \in Clients : SetClient(k)

SpecClient == InitClient /\ [][NextClient]_vars

\* defaultBackoff on its own
NextBackoff == \E attempt \in 0..MaxAttemptIndex : DefaultBackoffCall(attempt)

SpecBackoff == InitBackoff /\ [][NextBackoff]_vars

\* SetClient, the tuning options and Do, step by step
NextStore ==
    \/ \E t \in Threads : Lock(t)
    \/ \E t \in Threads : Assign(t)
    \/ \E t \in Threads : Unlock(t)
    \/ \E t \in Threads : RLock(t)
    \/ \E t \in Threads : ReturnClient(t)
    \/ \E t \in Threads : RUnlock(t)
    \/ \E t \in Threads : TuneSet(t)
    \/ \E t \in Threads : DoUse(t)

SpecStore == InitStore /\ [][NextStore]_vars

\* The scheduler runs every goroutine that can take a step inside SetClient
\* or GetClient; a Do in flight need never return.
FairStore ==
    /\ SpecStore
    /\ \A t \in Threads :
          /\ WF_vars(Lock(t)) /\ WF_vars(Assign(t)) /\ WF_vars(Unlock(t))
          /\ WF_vars(RLock(t)) /\ WF_vars(ReturnClient(t)) /\ WF_vars(RUnlock(t))

\* ================================================================= claims
Done(c) == call[c].pc = "done"
Last(q) == q[Len(q)]
Idempotent(method) == ToUpper(method) \in {"GET", "HEAD"}

\* position of the event (kind, mw) in the log of the current attempt, 0 if absent
Pos(events, kind, mw) ==
    IF \E i \in 1..Len(events) : events[i] = Event(kind, mw)
    THEN CHOOSE i \in 1..Len(events) : events[i] = Event(kind, mw)
    ELSE 0

\* C1: middlewares run last-registered-first: when X was registered before Y,
\* Y's "before" logic runs before X's on every attempt, and X's "after" logic
\* runs before Y's.
C1_MiddlewareLIFO ==
    \A c \in Calls :
        LET s == call[c]
            mws == s.options.Middlewares
        IN  \A i, j \in 1..Len(mws) :
                (i < j /\ mws[i] # mws[j] /\ s.pc # "loop" /\ s.sends > 0) =>
                    /\ Pos(s.events, "before", mws[j]) < Pos(s.events, "before", mws[i])
                    /\ (Pos(s.events, "after", mws[j]) > 0 =>
                          Pos(s.events, "after", mws[i]) < Pos(s.events, "after", mws[j]))

\* C2: a GET or HEAD call with the default backoff whose first k sends are
\* retry-candidate failures and whose send k+1 is a 2xx has made exactly k+1
\* sends and k backoff waits of 500ms * 2^i (i = 0..k-1), and returns that
\* response with a nil error.
C2_RetryThenSuccess ==
    \A c \in Calls :
        LET s == call[c]
            k == Len(s.hist) - 1
        IN  (/\ Idempotent(s.method)
             /\ s.options.Backoff = "defaultBackoff"
             /\ s.hist # <<>>
             /\ Last(s.hist) = "2xx"
             /\ \A i \in 1..k : s.hist[i] = "retry") =>
                /\ Done(c)
                /\ k <= s.options.Retries
                /\ s.sends = k + 1
                /\ s.retResp = s.resp
                /\ s.retErr = NoErr
                /\ Len(s.waits) = k
                /\ \A i \in 1..k :
                      s.waits[i].d = Min(BackoffBaseMs * 2 ^ (i - 1), BackoffMaxMs)

C2_Witness ==
    \E c \in Calls :
        /\ Done(c)
        /\ call[c].method = "HEAD"
        /\ call[c].options.Backoff = "defaultBackoff"
        /\ call[c].options.Retries = DefaultRetries
        /\ call[c].hist = <<"retry", "retry", "2xx">>
        /\ call[c].retResp.StatusCode = 200
        /\ call[c].sends = 3
        /\ call[c].waits = <<[attempt |-> 0, d |-> 500], [attempt |-> 1, d |-> 1000]>>

C3_WitnessFinalAttempt ==
    \E c \in Calls :
        /\ Done(c)
        /\ call[c].method = "POST"
        /\ call[c].options.Retries = 0
        /\ call[c].hist = <<"retry">>

\* C4: PUT and DELETE are retried by default: without ForceRetry, a PUT or
\* DELETE call never ends on a retry-candidate failure while attempts remain
\* and its context is not cancelled.
C4_PutDeleteRetried ==
    \A c \in Calls :
        LET s == call[c]
        IN  (/\ s.method \in {"PUT", "DELETE"}
             /\ s.hist # <<>>
             /\ Last(s.hist) = "retry"
             /\ Len(s.hist) <= s.options.Retries
             /\ s.ctxErr = "") => ~Done(c)

\* C5: a send that obtains a 4xx response ends the call at once, whatever the
\* method, Retries and ForceRetry: no wait and no send follow, and the call
\* returns a nil response and an HTTPError with that response's status.
C5_ClientErrorIsFatal ==
    \A c \in Calls :
        LET s == call[c]
        IN  (s.hist # <<>> /\ Last(s.hist) = "4xx") =>
                /\ Done(c)
                /\ s.sends = Len(s.hist)
                /\ Len(s.waits) = Len(s.hist) - 1
                /\ s.retResp = NoResp
                /\ s.retErr.type = "HTTPError"
                /\ s.resp.StatusCode \in 400..499
                /\ s.retErr.StatusCode = s.resp.StatusCode

C5_Witness ==
    \E c \in Calls :
        /\ Done(c)
        /\ call[c].method = "GET"
        /\ call[c].options.ForceRetry
        /\ call[c].options.Retries = MaxRetries
        /\ call[c].hist = <<"4xx">>
        /\ call[c].sends = 1
        /\ call[c].retErr.StatusCode = 404

\* C6: a send that returns a 2xx without error ends the call at once with that
\* response, unread and open, and a nil error (one send and no wait when it is
\* the first); and a call returns a response only after such a send.
C6_SuccessReturnsUntouched ==
    \A c \in Calls :
        LET s == call[c]
        IN  /\ (s.hist # <<>> /\ Last(s.hist) = "2xx") =>
                  /\ Done(c)
                  /\ s.sends = Len(s.hist)
                  /\ Len(s.waits) = Len(s.hist) - 1
                  /\ s.retResp.type = "resp"
                  /\ s.retResp.StatusCode \in 200..299
                  /\ s.retResp.read = 0
                  /\ ~s.retResp.closed
                  /\ s.retErr = NoErr
            /\ (Done(c) /\ s.retResp # NoResp) => (s.hist # <<>> /\ Last(s.hist) = "2xx")

C6_Witness ==
    \E c \in Calls :
        /\ Done(c)
        /\ call[c].hist = <<"2xx">>
        /\ call[c].sends = 1
        /\ call[c].waits = <<>>
        /\ call[c].retResp.StatusCode = 299
        /\ call[c].retResp.bodyLen > 0

\* C7: a call whose context is cancelled while it is blocked in the backoff
\* wait (timer not yet due) returns a nil response and the context's error,
\* and makes no further send.
C7_CancelDuringBackoff ==
    \A c \in Calls :
        LET s == call[c]
        IN  s.cancelledAt = "blocked" =>
                /\ Done(c)
                /\ s.retResp = NoResp
                /\ s.retErr = [type |-> "ctx", msg |-> s.ctxErr]
                /\ s.ctxErr \in CtxErrs
                /\ s.sends = Len(s.waits)
                /\ s.sends = Len(s.hist)

C7_Witness ==
    \E c \in Calls :
        /\ Done(c)
        /\ call[c].cancelledAt = "blocked"
        /\ call[c].lastErr.type = "HTTPError"
        /\ call[c].retErr.msg = "context deadline exceeded"
        /\ call[c].sends = 2

\* C8: a call whose last send ended in a cancellation error without a response
\* returns the context's error, not an HTTPError.
C8_CancelDuringSend ==
    \A c \in Calls :
        LET s == call[c]
        IN  (Done(c) /\ s.hist # <<>> /\ Last(s.hist) = "cancel") =>
                s.retErr = [type |-> "ctx", msg |-> s.ctxErr]

\* C9: once its context is cancelled a call starts no new attempt.
C9_NoAttemptAfterCancel ==
    [][\A c \in Calls : call[c].ctxErr # "" => call'[c].sends = call[c].sends]_vars

\* C10: the attempt counter never decreases, at most one send is in flight,
\* and a call makes at most 1 + Retries sends.
C10_AttemptsBounded ==
    /\ [](\A c \in Calls :
            LET s == call[c]
            IN  /\ s.sends <= 1 + s.options.Retries
                /\ s.sends - Len(s.hist) = (IF s.pc = "send" THEN 1 ELSE 0)
                /\ s.attempt >= 0)
    /\ [][\A c \in Calls : call'[c].attempt >= call[c].attempt]_vars

C10_Witness ==
    \E c \in Calls :
        /\ call[c].options.Retries = DefaultRetries
        /\ call[c].sends = 1 + DefaultRetries
        /\ call[c].pc = "send"

\* -------------------------------------------------------------- buffer pool
\* the buffers some attempt has checked out
HeldBufs == {call[c].buf : c \in Calls} \ {NoBuf}

\* the attempts a call has begun: its sends, and one more when the request
\* could not be constructed
Attempts(s) ==
    s.sends + (IF s.pc = "done" /\ s.retErr = NewRequestErr THEN 1 ELSE 0)

\* C11: an attempt holds at most one pooled buffer, every buffer taken has
\* been put back exactly once by the time the attempt is over (so none is held
\* when the next attempt starts or the call has returned), and every buffer
\* ever made is either held by an attempt or back in the pool.
C11_BufferReturnedOnce ==
    /\ \A c \in Calls :
          LET s == call[c]
          IN  /\ s.gets - s.puts = (IF s.buf = NoBuf THEN 0 ELSE 1)
              /\ s.pc # "send" => s.buf = NoBuf
              /\ s.buf # NoBuf => s.buf \notin bufferPool
    /\ bufferPool \cup HeldBufs = allocated

C11_Witness ==
    \E c \in Calls :
        LET s == call[c]
        IN  /\ Done(c)
            /\ s.body >= 1024
            /\ s.gets = 2
            /\ s.puts = 2
            /\ s.hist = <<"retry", "2xx">>
            /\ bufferPool = allocated
            /\ allocated # {}

\* C12: a pooled buffer belongs to one attempt at a time: no two attempts hold
\* the same buffer, and no attempt holds a buffer that the transport of an
\* earlier send is still reading as its request body.
C12_ExclusiveBufferOwnership ==
    /\ \A c1, c2 \in Calls :
          (c1 # c2 /\ call[c1].buf # NoBuf) => call[c1].buf # call[c2].buf
    /\ \A c \in Calls : call[c].buf # NoBuf => call[c].buf \notin bodyReaders

\* C13: while an attempt sends a pooled buffer as its body, the buffer holds
\* that attempt's own body bytes and nothing else.
C13_BufferHoldsOwnBody ==
    \A c \in Calls :
        LET s == call[c]
        IN  (s.pc = "send" /\ s.buf # NoBuf) => bufData[s.buf] = <<Chunk(c, s.body)>>

\* C14: a call with no body or a body shorter than 1024 bytes never touches
\* the pool and hands NewRequest nil, respectively a bytes.Reader; a call with
\* a body of 1024 bytes or more takes one pooled buffer per attempt and hands
\* NewRequest that buffer.
C14_BodyRepresentationBySize ==
    \A c \in Calls :
        LET s == call[c]
        IN  s.pc # "idle" =>
              /\ s.body = NilBody =>
                    /\ s.gets = 0 /\ s.puts = 0 /\ s.buf = NoBuf
                    /\ s.bodyReader = "nil"
              /\ (s.body # NilBody /\ s.body < 1024) =>
                    /\ s.gets = 0 /\ s.puts = 0 /\ s.buf = NoBuf
                    /\ Attempts(s) > 0 => s.bodyReader = "bytes.Reader"
              /\ (s.body # NilBody /\ s.body >= 1024) =>
                    /\ s.gets = Attempts(s)
                    /\ s.pc = "send" => s.buf # NoBuf
                    /\ Attempts(s) > 0 => s.bodyReader = "bytes.Buffer"

C14_Witness ==
    \E c \in Calls :
        LET s == call[c]
        IN  /\ s.body = 1024
            /\ s.pc = "send"
            /\ s.gets = 1
            /\ s.buf # NoBuf
            /\ s.bodyReader = "bytes.Buffer"

\* ------------------------------------------------------------ error values
\* C16: a returned HTTPError carries the status code of the response its
\* attempt obtained, and 0 exactly when the attempt obtained none.
C16_StatusCodeOfAttempt ==
    \A c \in Calls :
        LET s == call[c]
        IN  (Done(c) /\ s.retErr.type = "HTTPError") =>
                s.retErr.StatusCode = (IF s.resp = NoResp THEN 0 ELSE s.resp.StatusCode)

C18_ErrBodyFirst512 ==
    \A c \in Calls :
        LET s == call[c]
        IN  (Done(c) /\ s.retErr.type = "HTTPError") =>
                IF s.resp = NoResp
                THEN s.retErr.Body = 0
                ELSE /\ s.retErr.Body = (IF s.resp.bodyLen < 512 THEN s.resp.bodyLen ELSE 512)
                     /\ s.resp.read = s.retErr.Body
                     /\ s.resp.closed

C18_Witness ==
    \E c \in Calls :
        LET s == call[c]
        IN  /\ Done(c)
            /\ s.retErr.type = "HTTPError"
            /\ s.resp # NoResp
            /\ s.resp.bodyLen = 2000
            /\ s.retErr.Body = 512
            /\ Last(s.hist) = "retry"

\* ---------------------------------------------------------- defaultBackoff
\* min(500ms * 2^n, 30s) as a mathematical value, in nanoseconds
ExpectedBackoff(n) ==
    LET ms == IF n <= 20 THEN Min(500 * (2 ^ n), 30000) ELSE 30000
    IN  Mul64(FromNat(ms), FromNat(1000000))

\* C15: defaultBackoff(n) is min(500ms * 2^n, 30s) for every n >= 0, hence
\* never below 500ms, never above 30s and not above defaultBackoff(n + 1).
C15_DefaultBackoffClamped ==
    backoffCall.called =>
        /\ backoffCall.d = ExpectedBackoff(backoffCall.attempt)
        /\ ~Less64(backoffCall.d, Mul64(FromNat(500), FromNat(1000000)))
        /\ ~Less64(Mul64(FromNat(30000), FromNat(1000000)), backoffCall.d)
        /\ ~Less64(defaultBackoff64(backoffCall.attempt + 1), backoffCall.d)

\* ------------------------------------------------------- the shared client
\* the memory location a goroutine's next step reads or writes, if any
AccessPcs == {"assign", "return", "set", "Do"}
Location(s) ==
    IF s.pc \in {"assign", "return"} THEN [client |-> 0, field |-> "defaultClient"]
    ELSE [client |-> s.client, field |-> s.field]
Writes(s) == s.pc \in {"assign", "set"}

\* C19: no goroutine writes the shared pointer or a field of the client while
\* another reads or writes the same location, and a tuning option writes
\* while holding the lock exclusively.
C19_SharedClientExclusive ==
    /\ \A t1, t2 \in Threads :
          (/\ t1 # t2
           /\ thr[t1].pc \in AccessPcs
           /\ thr[t2].pc \in AccessPcs
           /\ Location(thr[t1]) = Location(thr[t2])) =>
                ~(Writes(thr[t1]) \/ Writes(thr[t2]))
    /\ \A t \in Threads : thr[t].pc = "set" => mu.w = t

\* C20: a tuning option leaves defaultClient as it is, and a Do that got its
\* pointer from GetClient earlier reads the settings as they were then.
C20_TuningInvisibleInFlight ==
    \A t \in Threads :
        LET s == thr[t]
        IN  /\ (s.op = "Tune" /\ s.pc = "done") => s.ptrAfter = s.ptrBefore
            /\ (s.op = "Do" /\ s.pc = "done") => s.seen = s.snap

\* goroutine t is the only one that calls SetClient, and its call is over
OnlySetterDone(t) ==
    /\ thr[t].op = "SetClient"
    /\ thr[t].pc = "done"
    /\ \A u \in Threads \ {t} : thr[u].op # "SetClient"

\* C21: no goroutine holds mu while its Do is in flight or after its call is
\* over; a GetClient that starts after the only SetClient has returned gets
\* the client SetClient installed; and every SetClient call is eventually
\* over, whether or not the Do calls in flight ever return.
C21_SetClientCompletes ==
    /\ [](\A t \in Threads :
            thr[t].pc \in {"Do", "set", "done"} => (t \notin mu.r /\ mu.w # t))
    /\ [][\A s, t \in Threads :
            (/\ OnlySetterDone(s)
             /\ thr[t].pc \in {"RLock", "return"}
             /\ thr'[t].pc = "RUnlock") => thr'[t].client = thr[s].newClient]_vars
    /\ \A t \in Threads :
          (thr[t].op = "SetClient" /\ thr[t].pc = "Lock") ~> (thr[t].pc = "done")

C21_Witness ==
    \E s, t \in Threads :
        /\ OnlySetterDone(s)
        /\ thr[s].newClient # 1
        /\ thr[t].op = "Do"
        /\ thr[t].pc = "Do"
        /\ thr[t].client = 1
        /\ defaultClient = thr[s].newClient

\* ------------------------------------------------------ options and helpers
\* the positions of the options of kind f in a list, and of the WithHeaders
\* options that set key k
Positions(opts, f) == {i \in 1..Len(opts) : opts[i].f = f}
HeaderPositions(opts, k) == {i \in Positions(opts, "WithHeaders") : k \in DOMAIN opts[i].h}
MaxOf(S) == CHOOSE i \in S : \A j \in S : j <= i

\* C22: the configuration of a call is its options folded in order (the
\* header keys are the union of all WithHeaders keys, the later value wins
\* on a collision, the last WithRetries and WithBackoff win), and every
\* attempt of the call carries exactly these headers.
C22_OptionsFolded ==
    \A c \in Calls :
        LET s == call[c]
            opts == s.callerOpts
            o == s.options
            keys == UNION {DOMAIN opts[i].h : i \in Positions(opts, "WithHeaders")}
        IN  (s.via \in {"Request", "Post"} /\ s.pc \notin {"idle", "entry"}) =>
              /\ o.Retries = (IF Positions(opts, "WithRetries") = {} THEN 3
                              ELSE opts[MaxOf(Positions(opts, "WithRetries"))].n)
              /\ o.Backoff = (IF Positions(opts, "WithBackoff") = {} THEN "defaultBackoff"
                              ELSE opts[MaxOf(Positions(opts, "WithBackoff"))].b)
              /\ DOMAIN o.Headers = keys
              /\ \A k \in keys : o.Headers[k] = opts[MaxOf(HeaderPositions(opts, k))].h[k]
              /\ \A i \in 1..Len(s.reqHeaders) :
                    /\ s.reqHeaders[i] = s.reqHeaders[1]
                    /\ \A k \in keys :
                          /\ CanonicalKey(k) \in DOMAIN s.reqHeaders[i]
                          /\ s.reqHeaders[i][CanonicalKey(k)] = o.Headers[k]

\* C23: every request PostJSON sends has Content-Type application/json and
\* every request PostForm sends has application/x-www-form-urlencoded,
\* whatever options the caller passed.
C23_HelperContentType ==
    \A c \in Calls :
        LET s == call[c]
        IN  \A i \in 1..Len(s.reqHeaders) :
              /\ s.via = "PostJSON" =>
                    /\ "Content-Type" \in DOMAIN s.reqHeaders[i]
                    /\ s.reqHeaders[i]["Content-Type"] = "application/json"
              /\ s.via = "PostForm" =>
                    /\ "Content-Type" \in DOMAIN s.reqHeaders[i]
                    /\ s.reqHeaders[i]["Content-Type"] = "application/x-www-form-urlencoded"

\* a call that returned an error without entering Request or touching the
\* middlewares, the buffer pool or the shared client
FailedBeforeRequest(s) ==
    /\ s.pc = "done"
    /\ s.retResp = NoResp /\ s.retErr # NoErr
    /\ ~s.requested
    /\ s.sends = 0 /\ s.events = <<>> /\ s.gets = 0 /\ s.client = 0
    /\ allocated = {}

\* C24 as stated: PostMForm with no file and no field fails before Request,
\* and with a file or a field it goes on to Request with method POST.
C24_AsStated ==
    \A c \in Calls :
        LET s == call[c]
        IN  (s.via = "PostMForm" /\ s.pc # "entry") =>
              IF Len(s.form.Files) = 0 /\ s.form.Fields = 0
              THEN FailedBeforeRequest(s)
              ELSE s.requested /\ s.method = "POST"

\* C24: PostMForm with no file and no field fails before Request; with a file
\* or a field, and every file readable, it goes on to Request with method
\* POST; when a file cannot be read it fails before Request as well.
C24_ValidationBeforeRequest ==
    \A c \in Calls :
        LET s == call[c]
            unreadable == \E i \in 1..Len(s.form.Files) : s.form.Files[i] # "ok"
        IN  (s.via = "PostMForm" /\ s.pc # "entry") =>
              IF (Len(s.form.Files) = 0 /\ s.form.Fields = 0) \/ unreadable
              THEN FailedBeforeRequest(s)
              ELSE s.requested /\ s.method = "POST"

C24_Witness ==
    \E c \in Calls :
        LET s == call[c]
        IN  /\ s.via = "PostMForm"
            /\ s.form = NoForm
            /\ FailedBeforeRequest(s)

\* ------------------------------------------------------- retry schedule
\* the method is GET or HEAD, or ForceRetry is set
MayRetry(s) == s.options.ForceRetry \/ ToUpper(s.method) \in {"GET", "HEAD"}

\* C25: the k-th call of the backoff function comes after the k-th send has
\* failed as a retry candidate and before the next send, receives k - 1, and
\* is made only while attempts remain and the method may be retried.
C25_BackoffBetweenAttempts ==
    \A c \in Calls :
        LET s == call[c]
            n == Len(s.waits)
        IN  /\ \A k \in 1..n :
                  /\ s.waits[k].attempt = k - 1
                  /\ k <= Len(s.hist)
                  /\ s.hist[k] \notin {"2xx", "4xx"}
                  /\ k - 1 < s.options.Retries
            /\ n > 0 => MayRetry(s)
            /\ n <= s.sends
            /\ s.sends <= n + 1

C25_Witness ==
    \E c \in Calls :
        LET s == call[c]
        IN  /\ Done(c)
            /\ s.options.Retries = 2
            /\ s.sends = 3
            /\ Len(s.waits) = 2
            /\ s.waits[1].attempt = 0
            /\ s.waits[2].attempt = 1
            /\ s.hist = <<"retry", "retry", "retry">>

\* C26: once an attempt that did not succeed is over, the response body it
\* obtained has been read to its end and closed.
C26_ErrBodyDrainedAndClosed ==
    \A c \in Calls :
        LET s == call[c]
        IN  (s.pc \in {"loop", "done"} /\ s.resp # NoResp /\ s.retResp = NoResp) =>
                /\ s.resp.closed
                /\ s.resp.read = s.resp.bodyLen

\* the sends so far that ended as retry candidates with attempts left on a
\* call that may retry
RetriedSends(s) ==
    {k \in 1..Len(s.hist) :
        /\ s.hist[k] \in {"retry", "cancel"}
        /\ k - 1 < s.options.Retries
        /\ MayRetry(s)}

C28_ForceRetrySchedule ==
    \A c \in Calls :
        LET s == call[c]
        IN  (/\ Done(c)
             /\ s.options.ForceRetry
             /\ ToUpper(s.method) \notin {"GET", "HEAD"}
             /\ s.ctxErr = ""
             /\ s.hist # <<>>
             /\ \A k \in 1..Len(s.hist) : s.hist[k] = "retry") =>
                /\ s.sends = 1 + s.options.Retries
                /\ Len(s.waits) = s.options.Retries
                /\ s.retResp = NoResp
                /\ s.retErr.type = "HTTPError"

C28_Witness ==
    \E c \in Calls :
        LET s == call[c]
        IN  /\ Done(c)
            /\ s.method = "POST"
            /\ s.options.ForceRetry
            /\ s.options.Retries = 2
            /\ s.ctxErr = ""
            /\ s.hist = <<"retry", "retry", "retry">>
            /\ Len(s.waits) = 2
            /\ s.retErr.type = "HTTPError"

\* C29: the HTTPError returned after several attempts has the Body and the
\* Err of the last attempt.
C29_LastAttemptOnly ==
    \A c \in Calls :
        LET s == call[c]
        IN  (Done(c) /\ s.retErr.type = "HTTPError" /\ s.sends >= 2) =>
                /\ s.retErr.Err = s.err
                /\ s.retErr.Body = (IF s.resp = NoResp THEN 0 ELSE s.resp.read)

\* C30: a call makes at most 1 + Retries sends and at most Retries waits, and
\* every call that has been made eventually returns.
C30_Terminates ==
    /\ [](\A c \in Calls :
            /\ call[c].sends <= 1 + call[c].options.Retries
            /\ Len(call[c].waits) <= call[c].options.Retries)
    /\ \A c \in Calls : (call[c].pc # "idle") ~> Done(c)

C30_Witness ==
    \E c \in Calls :
        LET s == call[c]
        IN  /\ Done(c)
            /\ s.options.Retries = DefaultRetries
            /\ s.sends = 1 + DefaultRetries
            /\ Len(s.waits) = DefaultRetries
            /\ s.options.Backoff = "defaultBackoff"
            /\ s.ctxErr = ""

\* C31: each attempt is sent through the shared client that is current when
\* the attempt reaches its send; a SetClient during a send or a backoff wait
\* leaves the send in flight on the client it started with, and the next
\* attempt of the call is sent through the new client.
C31_AttemptUsesCurrentClient ==
    [][\A c \in Calls :
          LET s == call[c]
              t == call'[c]
          IN  /\ (t.sends = s.sends + 1) =>
                     /\ t.client = defaultClient
                     /\ t.clients = Append(s.clients, defaultClient)
              /\ (s.pc \in {"send", "blocked"} /\ defaultClient' # defaultClient) =>
                     /\ t.pc = s.pc
                     /\ t.client = s.client
                     /\ t.clients = s.clients
              /\ (t.sends = s.sends) => t.clients = s.clients]_vars

C31_Witness ==
    \E c \in Calls :
        LET s == call[c]
        IN  /\ s.pc = "send"
            /\ s.sends = 2
            /\ s.clients = <<1, 2>>
            /\ s.client = 2
            /\ defaultClient = 1
            /\ Len(s.waits) = 1

====
